---- MODULE Spec2Model ----
(***************************************************************************)
(* Flowistry's alias engine (crates/flowistry/src/mir/aliases.rs) and its  *)
(* modular mutation visitor (crates/flowistry/src/infoflow/mutation.rs).   *)
(*                                                                         *)
(* A body is a list of typed locals and a list of instructions over        *)
(* places; the borrow checker's subset_base facts come with it.  Region    *)
(* variables are numbers, region 0 is 'static.  As in rustc's NLL          *)
(* renumbering every occurrence of a region in the body (in a local's      *)
(* declared type, in a borrow expression, in the type carried by a field   *)
(* projection) is a region variable of its own.                            *)
(***************************************************************************)
EXTENDS Naturals, Sequences, FiniteSets, TLC

VARIABLES
  body,           \* the MIR body under analysis (Aliases.body)
  facts,          \* input_facts.subset_base, as a set of pairs <<a, b>>
  mode,           \* EVAL_MODE.pointer_mode
  pc,             \* position of the engine: "init", "loop", "built", "panicked"
  contains,       \* the loan map: region -> set of places (Aliases.loans once built)
  done_sccs,      \* SCCs of the subset graph whose fixpoint has finished
  cur_scc,        \* the SCC being iterated (a set of regions; {} when none)
  cursor,         \* index of the next edge of the current pass
  changed,        \* the `changed` flag of the current pass
  aliases_cache,  \* Aliases.aliases_cache: set of [key, val]
  conflicts_cache,\* Aliases.conflicts_cache
  reachable_cache,\* Aliases.reachable_cache: set of [key, shallow, val]
  ret,            \* the last query and the set it returned
  nqueries,       \* number of queries issued so far
  vloc,           \* the visitor's position: index of the next instruction
  batches         \* the callback's invocations so far: sequence of [loc, muts]

vars == <<body, facts, mode, pc, contains, done_sccs, cur_scc, cursor, changed,
          aliases_cache, conflicts_cache, reachable_cache, ret, nqueries, vloc,
          batches>>

--------------------------------------------------------------------------
(* Types.  k is the kind, r the region of a reference (or of the reference *)
(* inside an rpair), t the name of the region-free pointee.                *)

Ty(k, r, t) == [k |-> k, r |-> r, t |-> t]
NoTy == Ty("none", 0, "none")
NamedTy(t) == Ty(t, 0, "none")
IntTy == NamedTy("int")            \* i32
UnitTy == NamedTy("unit")          \* ()
PairTy == NamedTy("pair")          \* (i32, i32)
PointTy == NamedTy("point")        \* struct Point { x: i32, y: i32 }
EmptyTy == NamedTy("empty")        \* struct Empty;
RefTy(r, t) == Ty("ref", r, t)     \* &'r mut t
RPairTy(r) == Ty("rpair", r, "none")  \* (&'r mut i32, i32)
RefsTy(r) == Ty("refs", r, "none")   \* (&'r mut i32, &'(r+1) mut i32)
BoxTy(t) == Ty("box", 0, t)        \* Box<t>: struct Box(Unique<t>, Global)
SliceTy == NamedTy("slice")        \* [i32]
ResumeTy == NamedTy("resume")      \* struct ResumeTy(NonNull<Context>), the task context
UniqueTy(t) == Ty("unique", 0, t)  \* struct Unique<t> { pointer: NonNull<t>, _marker: PhantomData<t> }
NonNullTy(t) == Ty("nonnull", 0, t)  \* struct NonNull<t> { pointer: *const t }
PhantomTy(t) == Ty("phantom", 0, t)  \* struct PhantomData<t>;
RawPtrTy(t) == Ty("rawptr", 0, t)  \* *const t
GlobalTy == NamedTy("global")      \* struct Global;

\* The type a pointee name stands for: an instance of a generic struct has a
\* name of its own for each type parameter, as Ty<'tcx> equality has it.
TyNamed(t) ==
  CASE t = "unique_pair" -> UniqueTy("pair")
    [] t = "unique_int" -> UniqueTy("int")
    [] OTHER -> NamedTy(t)

\* The field types of a tuple or of the only variant of a struct, the type
\* parameter of a generic struct substituted.
FieldTys(ty) ==
  CASE ty.k = "pair" -> <<IntTy, IntTy>>
    [] ty.k = "point" -> <<IntTy, IntTy>>
    [] ty.k = "rpair" -> <<RefTy(ty.r, "int"), IntTy>>
    [] ty.k = "refs" -> <<RefTy(ty.r, "int"), RefTy(ty.r + 1, "int")>>
    [] ty.k = "box" -> <<UniqueTy(ty.t), GlobalTy>>
    [] ty.k = "unique" -> <<NonNullTy(ty.t), PhantomTy(ty.t)>>
    [] ty.k = "nonnull" -> <<RawPtrTy(ty.t)>>
    [] ty.k = "resume" -> <<NonNullTy("context")>>
    [] OTHER -> <<>>

\* TyKind::Adt(adt_def, _) with adt_def.is_struct(): the structs of the
\* bodies and the structs of the library their types name.
IsStruct(ty) ==
  ty.k \in {"point", "empty", "box", "unique", "global", "nonnull", "phantom", "resume"}

--------------------------------------------------------------------------
(* Places.                                                                 *)

Deref == [kind |-> "Deref", idx |-> 0, ty |-> NoTy]
Field(i, ty) == [kind |-> "Field", idx |-> i, ty |-> ty]
Subslice(from) == [kind |-> "Subslice", idx |-> from, ty |-> NoTy]  \* [from..]
Place(l, proj) == [local |-> l, projection |-> proj]
FromLocal(l) == Place(l, <<>>)
MkPlaceDeref(p) == Place(p.local, Append(p.projection, Deref))
ProjectDeeper(p, proj) == Place(p.local, p.projection \o proj)

\* The type one projection element below `ty`: the pointee, the type the
\* field element carries, the slice itself for a subslice of a slice.
ElemTy(ty, e) ==
  CASE e.kind = "Deref" -> TyNamed(ty.t)
    [] e.kind = "Field" -> e.ty
    [] OTHER -> ty

RECURSIVE ProjTy(_, _, _)
ProjTy(ty, proj, i) ==
  IF i > Len(proj) THEN ty ELSE ProjTy(ElemTy(ty, proj[i]), proj, i + 1)

\* place.ty(body.local_decls(), tcx).ty
PlaceTy(b, p) == ProjTy(b.decls[p.local + 1], p.projection, 1)

IsIndirect(p) == \E i \in 1..Len(p.projection) : p.projection[i].kind = "Deref"
IsArg(b, p) == p.local > 0 /\ p.local - 1 < b.arg_count
IsDirect(b, p) == ~IsIndirect(p) \/ IsArg(b, p)

DerefIdx(p) == {i \in 1..Len(p.projection) : p.projection[i].kind = "Deref"}
LastDeref(p) == CHOOSE i \in DerefIdx(p) : \A j \in DerefIdx(p) : j <= i
\* refs_in_projection().last(): the pointer before the last dereference and
\* the projection after it.
LastRefPtr(p) == Place(p.local, SubSeq(p.projection, 1, LastDeref(p) - 1))
LastRefAfter(p) == SubSeq(p.projection, LastDeref(p) + 1, Len(p.projection))

\* Place::normalize erases the regions of the types carried by the place.
NormElem(e) == IF e.kind = "Field" THEN Field(e.idx, Ty(e.ty.k, 0, e.ty.t)) ELSE e
Normalize(p) == Place(p.local, [i \in 1..Len(p.projection) |-> NormElem(p.projection[i])])

--------------------------------------------------------------------------
(* Instructions.                                                           *)

NoPlace == FromLocal(0)
ConstOp == [const |-> TRUE, place |-> NoPlace]
PlaceOp(p) == [const |-> FALSE, place |-> p]

Rv(kind, region, place, agg, ty, ops) ==
  [kind |-> kind, region |-> region, place |-> place, agg |-> agg, ty |-> ty, ops |-> ops]
RvRef(r, p) == Rv("Ref", r, p, "none", NoTy, <<>>)
RvAggregate(agg, ty, ops) == Rv("Aggregate", 0, NoPlace, agg, ty, ops)
RvUse(op) == Rv("Use", 0, NoPlace, "none", NoTy, <<op>>)
RvBinaryOp(ops) == Rv("BinaryOp", 0, NoPlace, "none", NoTy, ops)
NoRv == Rv("none", 0, NoPlace, "none", NoTy, <<>>)

Assign(dst, rv) == [op |-> "assign", dst |-> dst, rv |-> rv, args |-> <<>>]
Call(dst, args) == [op |-> "call", dst |-> dst, rv |-> NoRv, args |-> args]
Nop == [op |-> "nop", dst |-> NoPlace, rv |-> NoRv, args |-> <<>>]

--------------------------------------------------------------------------
(* The bodies analysed.  Locals are numbered from 0 (_0 is the return      *)
(* place), decls[l + 1] is the declared type of local l, nregions the      *)
(* number of region variables of the body, base the subset_base facts the  *)
(* borrow checker derives from the instructions, cand the pairs further    *)
(* facts may relate, places the places queried.                            *)

L(l) == FromLocal(l)
F0(p, ty) == ProjectDeeper(p, <<Field(0, ty)>>)
F1(p, ty) == ProjectDeeper(p, <<Field(1, ty)>>)
D(p) == MkPlaceDeref(p)

\* let a = &mut (0, 0); let b = &mut a.0; let c = &mut *b; *c = 1;
\* (aliases.rs:275-278).  _2 is the tuple, _1 = a, _3 = b, _4 = c.
\* Regions: 1, 2, 3 in the types of _1, _3, _4; 4, 5, 6 the three borrows.
Reborrow ==
  [name |-> "Reborrow",
   decls |-> <<UnitTy, RefTy(1, "pair"), PairTy, RefTy(2, "int"), RefTy(3, "int")>>,
   arg_count |-> 0,
   nregions |-> 7,
   stmts |-> << Assign(L(2), RvAggregate("Tuple", PairTy, <<ConstOp, ConstOp>>)),
                Assign(L(1), RvRef(4, L(2))),
                Assign(L(3), RvRef(5, F0(D(L(1)), IntTy))),
                Assign(L(4), RvRef(6, D(L(3)))),
                Assign(D(L(4)), RvUse(ConstOp)) >>,
   base |-> {<<4, 1>>, <<1, 5>>, <<5, 2>>, <<2, 6>>, <<6, 3>>},
   ignored |-> {},
   cand |-> {},
   places |-> {D(L(4)), D(L(3)), F0(D(L(1)), IntTy), D(L(1)), L(2), F0(L(2), IntTy)}]

\* fn f(p: &mut (i32, i32)) { let mut t = (0, 0); let x = &mut p.0;
\*                            let q = &mut t; g(q, x); }
\* _1 = p, _2 = t, _3 = x, _4 = q.  Regions: 1, 2, 5 in the types of _1, _3,
\* _4; 3 the borrow of (*_1).0, 4 the borrow of _2.
ArgField ==
  [name |-> "ArgField",
   decls |-> <<UnitTy, RefTy(1, "pair"), PairTy, RefTy(2, "int"), RefTy(5, "pair")>>,
   arg_count |-> 1,
   nregions |-> 6,
   stmts |-> << Assign(L(3), RvRef(3, F0(D(L(1)), IntTy))),
                Assign(L(4), RvRef(4, L(2))),
                Call(L(0), <<PlaceOp(L(4)), PlaceOp(L(3))>>) >>,
   base |-> {<<1, 3>>, <<3, 2>>, <<4, 5>>},
   ignored |-> {},
   cand |-> {<<a, b>> \in (0..5) \X (0..5) : a # b /\ a # 0},
   places |-> {D(L(1)), D(L(3)), D(L(4)), F0(D(L(4)), IntTy), L(2)}]

\* let mut x = 1; let mut y = 2; let mut t = (&mut x, 0);
\* *t.0 = 3; t.0 = &mut y; *t.0 = 4;
\* _1 = x, _2 = y, _3 = t, _4 the temporary &mut x.  Regions: 1 in the type
\* of _3, 2 in the type of _4, 3 and 4 the borrows of x and y, 5, 6, 7 the
\* regions of the field type in the three occurrences of t.0.
Twin ==
  [name |-> "Twin",
   decls |-> <<UnitTy, IntTy, IntTy, RPairTy(1), RefTy(2, "int")>>,
   arg_count |-> 0,
   nregions |-> 8,
   stmts |-> << Assign(L(4), RvRef(3, L(1))),
                Assign(L(3), RvAggregate("Tuple", RPairTy(2), <<PlaceOp(L(4)), ConstOp>>)),
                Assign(D(F0(L(3), RefTy(5, "int"))), RvUse(ConstOp)),
                Assign(F0(L(3), RefTy(6, "int")), RvRef(4, L(2))),
                Assign(D(F0(L(3), RefTy(7, "int"))), RvUse(ConstOp)) >>,
   base |-> {<<3, 2>>, <<2, 1>>, <<4, 6>>,
             <<5, 1>>, <<1, 5>>, <<6, 1>>, <<1, 6>>, <<7, 1>>, <<1, 7>>},
   ignored |-> {},
   cand |-> {},
   places |-> {D(F0(L(3), RefTy(5, "int"))), D(F0(L(3), RefTy(7, "int"))),
               D(L(4)), L(3), L(1)}]

\* fn h(r: &mut (i32, i32)) with one instruction of every shape the visitor
\* tells apart.  _2, _3 : Point, _4, _5 : Empty, _6 : i32, _7 : (i32, i32),
\* _8 : [i32; 1], _9 the task context that the desugaring of async passes
\* along, the one place AsyncHack ignores, _10, _11 : Box<(i32, i32)>.
Shapes ==
  [name |-> "Shapes",
   decls |-> <<UnitTy, RefTy(1, "pair"), PointTy, PointTy, EmptyTy, EmptyTy, IntTy,
               PairTy, NamedTy("array"), ResumeTy, BoxTy("pair"), BoxTy("pair")>>,
   arg_count |-> 1,
   nregions |-> 2,
   stmts |-> << Assign(L(2), RvAggregate("Adt", PointTy, <<ConstOp, PlaceOp(L(6))>>)),
                Assign(L(3), RvUse(PlaceOp(L(2)))),
                Assign(L(4), RvAggregate("Adt", EmptyTy, <<>>)),
                Assign(L(5), RvUse(PlaceOp(L(4)))),
                Assign(L(6), RvBinaryOp(<<PlaceOp(L(6)), ConstOp>>)),
                Assign(L(7), RvAggregate("Tuple", PairTy, <<PlaceOp(L(6)), ConstOp>>)),
                Assign(L(8), RvAggregate("Array", NamedTy("array"), <<PlaceOp(L(6))>>)),
                Nop,
                Assign(L(7), RvUse(PlaceOp(D(L(1))))),
                Assign(L(11), RvUse(PlaceOp(L(10)))),
                Call(L(6), <<PlaceOp(L(1)), ConstOp, PlaceOp(L(6))>>),
                Call(L(0), <<PlaceOp(L(6)), PlaceOp(L(9))>>) >>,
   base |-> {},
   ignored |-> {L(9)},
   cand |-> {},
   places |-> {D(L(1)), L(1), L(7)}]

\* fn w(mut p: &[i32]) { while let [_, rest @ ..] = p { p = rest; } }
\* _1 = p, _2 = rest.  Regions: 1, 2 in the types of _1, _2; 3 the borrow
\* of (*_1)[1..].  The facts form the cycle 1 -> 3 -> 2 -> 1.
SliceLoop ==
  [name |-> "SliceLoop",
   decls |-> <<UnitTy, RefTy(1, "slice"), RefTy(2, "slice")>>,
   arg_count |-> 1,
   nregions |-> 4,
   stmts |-> << Assign(L(2), RvRef(3, ProjectDeeper(D(L(1)), <<Subslice(1)>>))),
                Assign(L(1), RvUse(PlaceOp(L(2)))) >>,
   base |-> {<<1, 3>>, <<3, 2>>, <<2, 1>>},
   ignored |-> {},
   cand |-> {},
   places |-> {D(L(1)), D(L(2))}]

\* fn l() { let a: &i32; let b: &i32; }: two references that are never
\* assigned; no fact names their regions 1 and 2.
Lonely ==
  [name |-> "Lonely",
   decls |-> <<UnitTy, RefTy(1, "int"), RefTy(2, "int")>>,
   arg_count |-> 0,
   nregions |-> 3,
   stmts |-> << Nop >>,
   base |-> {},
   ignored |-> {},
   cand |-> {},
   places |-> {L(1), D(L(1))}]

\* fn t(a: Box<(i32, i32)>, b: Box<i32>) { let x = &a.0; let y = &b.0; }
\* _1 = a, _2 = b, _3 = x : &Unique<(i32, i32)>, _4 = y : &Unique<i32>.
\* Regions: 1, 2 in the types of _3, _4; 3, 4 the two borrows.
TwoBoxes ==
  [name |-> "TwoBoxes",
   decls |-> <<UnitTy, BoxTy("pair"), BoxTy("int"),
               RefTy(1, "unique_pair"), RefTy(2, "unique_int")>>,
   arg_count |-> 2,
   nregions |-> 5,
   stmts |-> << Assign(L(3), RvRef(3, F0(L(1), UniqueTy("pair")))),
                Assign(L(4), RvRef(4, F0(L(2), UniqueTy("int")))) >>,
   base |-> {<<3, 1>>, <<4, 2>>},
   ignored |-> {},
   cand |-> {},
   places |-> {D(L(3)), D(L(4)), F0(L(1), UniqueTy("pair")), F0(L(2), UniqueTy("int"))}]

\* let mut x = 1; let mut y = 2; let mut t = (&mut x, &mut y); t.1 = &mut x;
\* _1 = x, _2 = y, _3 = t, _4 and _5 the temporaries &mut x and &mut y.
\* Regions: 1, 2 in the type of _3, 3, 4 in the types of _4, _5; 5, 6, 7 the
\* three borrows; 8 the region of the field type in the occurrence of t.1.
TwoRefs ==
  [name |-> "TwoRefs",
   decls |-> <<UnitTy, IntTy, IntTy, RefsTy(1), RefTy(3, "int"), RefTy(4, "int")>>,
   arg_count |-> 0,
   nregions |-> 9,
   stmts |-> << Assign(L(4), RvRef(5, L(1))),
                Assign(L(5), RvRef(6, L(2))),
                Assign(L(3), RvAggregate("Tuple", RefsTy(3),
                                         <<PlaceOp(L(4)), PlaceOp(L(5))>>)),
                Assign(F1(L(3), RefTy(8, "int")), RvRef(7, L(1))) >>,
   base |-> {<<5, 3>>, <<6, 4>>, <<3, 1>>, <<4, 2>>, <<7, 8>>, <<8, 2>>, <<2, 8>>},
   ignored |-> {},
   cand |-> {},
   places |-> {L(3), L(1), D(F0(L(3), RefTy(1, "int"))), D(F1(L(3), RefTy(2, "int")))}]

\* The bodies on which the propagation of compute_loans ends.
Bodies == {Reborrow, ArgField, Twin, Shapes, Lonely, TwoBoxes, TwoRefs}
\* All bodies; the propagation loop is followed step by step on these.
LoopBodies == Bodies \cup {SliceLoop}
Modes == {"Precise", "Conservative"}

\* The region variables of the body, in its facts or in its types only: the
\* keys the loan map may have (a HashMap, not bounded by num_regions).
Regions(b) == 0..(b.nregions - 1)
Locals(b) == 0..(Len(b.decls) - 1)

--------------------------------------------------------------------------
(* The subset graph (aliases.rs:164-206).                                  *)

static_region == 0

Max(S) == CHOOSE x \in S : \A y \in S : y <= x
Min(S) == CHOOSE x \in S : \A y \in S : x <= y

all_regions(fs) == {e[1] : e \in fs} \cup {e[2] : e \in fs}
num_regions(fs) == (IF all_regions(fs) = {} THEN static_region ELSE Max(all_regions(fs))) + 1

\* interior_pointers(tcx, body, def_id, shallow): the reference-typed places
\* inside `p`, each with the region of its type; behind a reference only
\* when not shallow.
InteriorPointers(b, p, shallow) ==
  LET ty == PlaceTy(b, p) IN
  CASE ty.k = "ref" -> {<<ty.r, p>>}
    [] ty.k = "rpair" -> {<<ty.r, F0(p, RefTy(ty.r, "int"))>>}
    [] ty.k = "refs" -> {<<ty.r, F0(p, RefTy(ty.r, "int"))>>,
                         <<ty.r + 1, F1(p, RefTy(ty.r + 1, "int"))>>}
    [] OTHER -> {}

region_to_pointers(b) ==
  UNION {InteriorPointers(b, FromLocal(l), FALSE) : l \in Locals(b)}

\* generate_conservative_constraints: regions with pointers of one pointee type.
get_ty(b, p) == PlaceTy(b, MkPlaceDeref(p))
generate_conservative_constraints(b, r2p) ==
  LET keys == {e[1] : e \in r2p}
      ptrs(r) == {e[2] : e \in {x \in r2p : x[1] = r}}
      match(r, o) == r # o /\ \E p1 \in ptrs(r) : \E p2 \in ptrs(o) :
                                get_ty(b, p1) = get_ty(b, p2)
  IN UNION {{<<r, o>>, <<o, r>>} : <<r, o>> \in {e \in keys \X keys : match(e[1], e[2])}}

\* Mutant: the conservative constraints replace the facts instead of adding to them.
SubsetReplacing(b, fs, m) ==
  IF m = "Conservative"
  THEN generate_conservative_constraints(b, region_to_pointers(b))
         \cup {<<static_region, a>> : a \in all_regions(fs)}
  ELSE fs \cup {<<static_region, a>> : a \in all_regions(fs)}

Subset(b, fs, m) ==
  fs \cup {<<static_region, a>> : a \in all_regions(fs)}
     \cup (IF m = "Conservative"
           THEN generate_conservative_constraints(b, region_to_pointers(b))
           ELSE {})

\* subset.insert(a, b) asserts that b is below num_regions, the number of
\* columns of the matrix.  The facts and the 'static edges are below it by
\* construction; a conservative constraint on a region that no fact names
\* is not, and compute_loans panics (aliases.rs:203-205).
SubsetPanics(b, fs, m) ==
  /\ m = "Conservative"
  /\ \E e \in generate_conservative_constraints(b, region_to_pointers(b)) :
       e[2] >= num_regions(fs)

Succs(S, a) == {e[2] : e \in {x \in S : x[1] = a}}

--------------------------------------------------------------------------
(* Loan seeds and definite records (aliases.rs:208-243).                   *)

\* GatherBorrows: the (region, place) of every `_ = &'region place`, in body order.
RECURSIVE GatherFrom(_, _)
GatherFrom(stmts, i) ==
  IF i > Len(stmts) THEN <<>>
  ELSE LET s == stmts[i]
           rest == GatherFrom(stmts, i + 1)
       IN IF s.op = "assign" /\ s.rv.kind = "Ref"
          THEN <<[region |-> s.rv.region, place |-> s.rv.place]>> \o rest
          ELSE rest
GatherBorrows(b) == GatherFrom(b.stmts, 1)

NoDefinite == [has |-> FALSE, ty |-> NoTy, proj |-> <<>>]

\* Ty::peel_refs: the type below the references; a type that is no
\* reference (a Box too) is left as it is.
PeelRefs(ty) == IF ty.k = "ref" THEN TyNamed(ty.t) ELSE ty

\* The (ty, projection) recorded for one borrowed place (aliases.rs:221-230).
DefiniteOf(b, place) ==
  IF IsIndirect(place)
  THEN [has |-> TRUE, ty |-> PeelRefs(PlaceTy(b, LastRefPtr(place))),
        proj |-> LastRefAfter(place)]
  ELSE [has |-> TRUE, ty |-> b.decls[place.local + 1], proj |-> place.projection]

\* definite: region -> record; a later borrow with the same region overwrites.
RECURSIVE DefiniteFrom(_, _, _, _)
DefiniteFrom(b, bs, i, d) ==
  IF i > Len(bs) THEN d
  ELSE DefiniteFrom(b, bs, i + 1, [d EXCEPT ![bs[i].region] = DefiniteOf(b, bs[i].place)])
Definite(b) ==
  DefiniteFrom(b, GatherBorrows(b), 1, [r \in Regions(b) |-> NoDefinite])

\* all_args(): the argument locals; *arg is a seed when arg : &'region T.
ArgSeeds(b, r) ==
  {MkPlaceDeref(FromLocal(l)) :
     l \in {x \in Locals(b) : IsArg(b, FromLocal(x)) /\ b.decls[x + 1].k = "ref"
                                /\ b.decls[x + 1].r = r}}

InitialContains(b) ==
  LET bs == GatherBorrows(b) IN
  [r \in Regions(b) |->
     {bs[i].place : i \in {j \in 1..Len(bs) : bs[j].region = r}} \cup ArgSeeds(b, r)]

--------------------------------------------------------------------------
(* SCCs of the subset graph and their order (aliases.rs:247-261).          *)

RECURSIVE ReachFrom(_, _)
ReachFrom(S, seen) ==
  LET next == seen \cup UNION {Succs(S, a) : a \in seen}
  IN IF next = seen THEN seen ELSE ReachFrom(S, next)
Reach(S, a) == ReachFrom(S, {a})

\* subset_sccs.scc(r), as the set of its regions (scc_to_regions).
SccOf(S, r) == {x \in Reach(S, r) : r \in Reach(S, x)}

\* The SCCs reverse_post_order visits: those reachable from 'static's.
ReachableSccs(S) == {SccOf(S, r) : r \in Reach(S, static_region)}

SccPreds(S, scc) ==
  {SccOf(S, e[1]) : e \in {x \in S : x[2] \in scc /\ x[1] \notin scc}}

\* The SCCs that may come next in a topological order of the SCC graph.
ReadySccs(S, done) ==
  {scc \in ReachableSccs(S) \ done : \A p \in SccPreds(S, scc) : p \in done}

--------------------------------------------------------------------------
(* The propagation (aliases.rs:286-315).                                   *)

\* Mutant: the definite projection is never appended.
PropagatedPlaceUnprojected(bd, S, def, a, b, p) == p

\* Mutant: the definite projection is appended on a two-way edge too.
PropagatedPlaceIgnoringCyclic(bd, S, def, a, b, p) ==
  IF def[b].has /\ def[b].ty = PlaceTy(bd, p)
  THEN ProjectDeeper(p, def[b].proj)
  ELSE p

\* The place inserted into contains(b) for p in contains(a)  (aliases.rs:295-303).
PropagatedPlace(bd, S, def, a, b, p) ==
  LET cyclic == <<b, a>> \in S
      p_ty == PlaceTy(bd, p)
  IN IF def[b].has /\ ~cyclic /\ def[b].ty = p_ty
     THEN ProjectDeeper(p, def[b].proj)
     ELSE p

\* Mutant: `changed = insert(..)` in place of `changed |= insert(..)`.
InsertStepOverwriting(acc, q) ==
  [set |-> acc.set \cup {q}, changed |-> q \notin acc.set]

\* for p in places { changed |= contains.entry(b).or_default().insert(p_proj) }
InsertStep(acc, q) ==
  [set |-> acc.set \cup {q}, changed |-> acc.changed \/ q \notin acc.set]

RECURSIVE InsertAll(_, _, _, _, _, _, _, _)
InsertAll(bd, S, def, a, b, order, i, acc) ==
  IF i > Len(order) THEN acc
  ELSE InsertAll(bd, S, def, a, b, order, i + 1,
                 InsertStep(acc, PropagatedPlace(bd, S, def, a, b, order[i])))

\* Mutant: contains.get_mut(&b) in place of contains.entry(b).or_default():
\* a region without an entry receives nothing.
PropagateEdgeExistingOnly(bd, S, def, c, ch, a, b, order) ==
  LET r == InsertAll(bd, S, def, a, b, order, 1, [set |-> c[b], changed |-> ch])
  IN IF c[b] = {} THEN [contains |-> c, changed |-> ch]
     ELSE [contains |-> [c EXCEPT ![b] = r.set], changed |-> r.changed]

\* One edge a -> b of a pass, the places of contains(a) taken in `order`.
PropagateEdge(bd, S, def, c, ch, a, b, order) ==
  LET r == InsertAll(bd, S, def, a, b, order, 1, [set |-> c[b], changed |-> ch])
  IN [contains |-> [c EXCEPT ![b] = r.set], changed |-> r.changed]

\* The orders in which a HashSet may be iterated: all of them.
RECURSIVE Perms(_)
Perms(A) ==
  IF A = {} THEN {<<>>}
  ELSE UNION {{<<x>> \o t : t \in Perms(A \ {x})} : x \in A}

\* The edges a pass over `scc` walks: a ascending, then b ascending.
RECURSIVE SortEdges(_)
SortEdges(E) ==
  IF E = {} THEN <<>>
  ELSE LET m == CHOOSE x \in E : \A y \in E :
                   x[1] < y[1] \/ (x[1] = y[1] /\ x[2] <= y[2])
       IN <<m>> \o SortEdges(E \ {m})
\* scc_to_regions holds the regions below num_regions only.
SccEdges(S, n, scc) == SortEdges({e \in S : e[1] \in scc /\ e[1] < n})

\* One pass over the edges of an SCC from each state of `rs`.  The places of
\* contains(a) are a HashSet, walked in the order of its hasher: the
\* outcomes are those of every order.
RECURSIVE PassFrom(_, _, _, _, _, _)
PassFrom(bd, S, def, edges, i, rs) ==
  IF i > Len(edges) THEN rs
  ELSE LET e == edges[i]
       IN PassFrom(bd, S, def, edges, i + 1,
                   UNION {{PropagateEdge(bd, S, def, r.contains, r.changed,
                                         e[1], e[2], order) :
                             order \in Perms(r.contains[e[1]])} : r \in rs})

\* Mutant: a single pass over each SCC.
PassNever(ch) == FALSE

\* if !changed { break }: another pass is made when the pass changed a set.
PassAgain(ch) == ch

\* loop { changed = false; one pass; if !changed { break } }
\* The maps the loop may end with, from each map of `cs`.
RECURSIVE FixScc(_, _, _, _, _)
FixScc(bd, S, def, edges, cs) ==
  UNION {IF PassAgain(r.changed) THEN FixScc(bd, S, def, edges, {r.contains})
         ELSE {r.contains} :
           r \in PassFrom(bd, S, def, edges, 1,
                          {[contains |-> c, changed |-> FALSE] : c \in cs})}

\* for scc in scc_order { ... }, the order being a topological one.
RECURSIVE RunSccs(_, _, _, _, _, _)
RunSccs(bd, S, n, def, done, cs) ==
  LET ready == ReadySccs(S, done) IN
  IF ready = {} THEN cs
  ELSE LET scc == CHOOSE x \in ready : \A y \in ready : Min(x) <= Min(y)
       IN RunSccs(bd, S, n, def, done \cup {scc},
                  FixScc(bd, S, def, SccEdges(S, n, scc), cs))

\* Aliases::compute_loans
compute_loans(bd, fs, m) ==
  RunSccs(bd, Subset(bd, fs, m), num_regions(fs), Definite(bd), {}, {InitialContains(bd)})

--------------------------------------------------------------------------
(* Queries (aliases.rs:346-439).  A cache is a set of entries; get(key, f) *)
(* returns the entry of key when there is one and otherwise stores f's     *)
(* result under key.                                                       *)

CacheHas(cache, key) == \E e \in cache : e.key = key
CacheVal(cache, key) == (CHOOSE e \in cache : e.key = key).val

\* The closure of Aliases::aliases (aliases.rs:356-401), on the place as given.
AliasesCompute(b, loans, place) ==
  IF IsDirect(b, place) THEN {place}
  ELSE LET ptr == LastRefPtr(place)
           after == LastRefAfter(place)
           ptr_ty == PlaceTy(b, ptr)
       IN IF ptr_ty.k # "ref" THEN {place}
          ELSE LET region == ptr_ty.r
                   orig_ty == TyNamed(ptr_ty.t)
                   region_loans == IF region \in DOMAIN loans THEN loans[region] ELSE {}
               IN {place} \cup
                  {IF orig_ty = PlaceTy(b, loan) THEN ProjectDeeper(loan, after) ELSE loan :
                     loan \in region_loans}

\* Aliases::aliases: the cache is keyed by the normalized place.
Aliases(b, loans, cache, place) ==
  LET key == Normalize(place) IN
  IF CacheHas(cache, key)
  THEN [cache |-> cache, val |-> CacheVal(cache, key)]
  ELSE LET v == AliasesCompute(b, loans, place)
       IN [cache |-> cache \cup {[key |-> key, val |-> v]}, val |-> v]

\* Aliases::children: the places one projection step below `place`.
Children(b, place) ==
  LET ty == PlaceTy(b, place)
      tys == FieldTys(ty)
  IN {ProjectDeeper(place, <<Field(i - 1, tys[i])>>) : i \in 1..Len(tys)}
     \cup (IF ty.k \in {"ref", "box"} THEN {MkPlaceDeref(place)} ELSE {})

\* iter_projections().take_while(not Deref): the prefixes before each
\* projection element, up to the first dereference.
Parents(place) ==
  LET n == Len(place.projection)
      stop == IF IsIndirect(place) THEN Min(DerefIdx(place)) ELSE n + 1
  IN {Place(place.local, SubSeq(place.projection, 1, i - 1)) :
        i \in {j \in 1..n : j < stop}}

\* Aliases::conflicts: keyed by the place as given; calls aliases.
Conflicts(b, loans, acache, ccache, place) ==
  IF CacheHas(ccache, place)
  THEN [acache |-> acache, ccache |-> ccache, val |-> CacheVal(ccache, place)]
  ELSE LET a == Aliases(b, loans, acache, place)
           v == UNION {Children(b, alias) \cup Parents(alias) : alias \in a.val}
       IN [acache |-> a.cache, ccache |-> ccache \cup {[key |-> place, val |-> v]},
           val |-> v]

\* The aliases of the dereference of each interior pointer, one call of
\* aliases after the other.
RECURSIVE DerefAliases(_, _, _, _, _, _)
DerefAliases(b, loans, ptrs, i, acache, acc) ==
  IF i > Len(ptrs) THEN [acache |-> acache, val |-> acc]
  ELSE LET a == Aliases(b, loans, acache, MkPlaceDeref(ptrs[i]))
       IN DerefAliases(b, loans, ptrs, i + 1, a.cache, acc \cup a.val)

\* Mutant: the places are not filtered by is_direct.
ReachableValuesUnfiltered(b, loans, acache, rcache, place, shallow) ==
  LET key == <<place, shallow>> IN
  IF CacheHas(rcache, key)
  THEN {[acache |-> acache, rcache |-> rcache, val |-> CacheVal(rcache, key)]}
  ELSE {LET d == DerefAliases(b, loans, ptrs, 1, acache, {})
            v == d.val \cup {place}
        IN [acache |-> d.acache, rcache |-> rcache \cup {[key |-> key, val |-> v]},
            val |-> v] :
          ptrs \in Perms({e[2] : e \in InteriorPointers(b, place, shallow)})}

\* Aliases::reachable_values: keyed by (place, shallow); calls aliases.  The
\* interior pointers are the values of a HashMap, walked in the order of its
\* hasher: the outcomes are those of every order.
ReachableValues(b, loans, acache, rcache, place, shallow) ==
  LET key == <<place, shallow>> IN
  IF CacheHas(rcache, key)
  THEN {[acache |-> acache, rcache |-> rcache, val |-> CacheVal(rcache, key)]}
  ELSE {LET d == DerefAliases(b, loans, ptrs, 1, acache, {})
            v == {q \in d.val \cup {place} : IsDirect(b, q)}
        IN [acache |-> d.acache, rcache |-> rcache \cup {[key |-> key, val |-> v]},
            val |-> v] :
          ptrs \in Perms({e[2] : e \in InteriorPointers(b, place, shallow)})}

--------------------------------------------------------------------------
(* The modular mutation visitor (mutation.rs:63-222).                      *)

Mutation(m, ins, st) == [mutated |-> m, inputs |-> ins, status |-> st]

\* Operand::as_place, as the sequence of zero or one place.
as_place(op) == IF op.const THEN <<>> ELSE <<op.place>>

MinOf(a, b) == IF a <= b THEN a ELSE b

RECURSIVE OperandPlaces(_, _)
OperandPlaces(ops, i) ==
  IF i > Len(ops) THEN <<>> ELSE as_place(ops[i]) \o OperandPlaces(ops, i + 1)

\* PlaceCollector: the places the rvalue reads, in order.
PlaceCollector(rv) ==
  IF rv.kind = "Ref" THEN <<rv.place>> ELSE OperandPlaces(rv.ops, 1)

\* utils::arg_places: the places among the arguments of a call.
arg_places(args) == OperandPlaces(args, 1)

\* Operand::ty: the type of the place; the constants of the bodies are i32.
OperandTy(b, op) == IF op.const THEN IntTy ELSE PlaceTy(b, op.place)

\* mutation.rs:82-97: the field types of an Adt or Tuple aggregate, if it is one.
\* For an Adt the fields of the variant, for a tuple the fields of
\* rvalue.ty(..), the tuple of the operands' types.
AggregateTys(b, rv) ==
  CASE rv.agg = "Adt" -> [some |-> TRUE, tys |-> FieldTys(rv.ty)]
    [] rv.agg = "Tuple" ->
         [some |-> TRUE, tys |-> [i \in 1..Len(rv.ops) |-> OperandTy(b, rv.ops[i])]]
    [] OTHER -> [some |-> FALSE, tys |-> <<>>]

\* Mutant: one coarse record for dst, reading every operand.
AggregateMutationsCoarse(dst, tys, ops) ==
  <<Mutation(dst, OperandPlaces(ops, 1), "Definitely")>>

\* mutation.rs:101-118: tys.enumerate().zip(ops), one record per pair.
AggregateMutations(dst, tys, ops) ==
  [i \in 1..MinOf(Len(tys), Len(ops)) |->
     Mutation(ProjectDeeper(dst, <<Field(i - 1, tys[i])>>), as_place(ops[i]), "Definitely")]

\* Mutant: the value is copied as a whole, one record for dst.
StructMutationsWhole(dst, src, tys) == <<Mutation(dst, <<src>>, "Definitely")>>

\* mutation.rs:132-145: one record per field of the struct.
StructMutations(dst, src, tys) ==
  [i \in 1..Len(tys) |->
     Mutation(ProjectDeeper(dst, <<Field(i - 1, tys[i])>>),
              <<ProjectDeeper(src, <<Field(i - 1, tys[i])>>)>>, "Definitely")]

\* ModularMutationVisitor::visit_assign: the batch handed to the callback.
visit_assign(b, dst, rv) ==
  LET agg == AggregateTys(b, rv) IN
  IF rv.kind = "Aggregate" /\ agg.some /\ Len(agg.tys) > 0
  THEN AggregateMutations(dst, agg.tys, rv.ops)
  ELSE IF rv.kind = "Use" /\ ~rv.ops[1].const /\ IsStruct(PlaceTy(b, rv.ops[1].place))
  THEN StructMutations(dst, rv.ops[1].place, FieldTys(PlaceTy(b, rv.ops[1].place)))
  ELSE <<Mutation(dst, PlaceCollector(rv), "Definitely")>>

\* Mutant: the aggregate arm does not return after its callback and runs
\* into the generic one.
AssignCallbacksFallingThrough(b, loc, dst, rv) ==
  IF rv.kind = "Aggregate" /\ AggregateTys(b, rv).some /\ Len(AggregateTys(b, rv).tys) > 0
  THEN <<[loc |-> loc, muts |-> visit_assign(b, dst, rv)],
         [loc |-> loc, muts |-> <<Mutation(dst, PlaceCollector(rv), "Definitely")>>]>>
  ELSE <<[loc |-> loc, muts |-> visit_assign(b, dst, rv)]>>

\* The invocations (self.f)(location, mutations) of one visit_assign: each
\* arm that builds a batch hands it over and returns (mutation.rs:119-120,
\* 146-147), the others reach the one at mutation.rs:157.
AssignCallbacks(b, loc, dst, rv) == <<[loc |-> loc, muts |-> visit_assign(b, dst, rv)]>>

\* AsyncHack::ignore_place: the places the desugaring of async introduced.
ignore_place(b, place) == place \in b.ignored

\* Mutant: the argument itself is not skipped.
RECURSIVE PossiblyOfKeepingArg(_, _, _, _)
PossiblyOfKeepingArg(arg, reach, i, inputs) ==
  IF i > Len(reach) THEN <<>>
  ELSE <<Mutation(reach[i], inputs, "Possibly")>>
       \o PossiblyOfKeepingArg(arg, reach, i + 1, inputs)

\* mutation.rs:204-212: the Possibly records of one argument.
RECURSIVE PossiblyOf(_, _, _, _)
PossiblyOf(arg, reach, i, inputs) ==
  IF i > Len(reach) THEN <<>>
  ELSE (IF arg = reach[i] THEN <<>> ELSE <<Mutation(reach[i], inputs, "Possibly")>>)
       \o PossiblyOf(arg, reach, i + 1, inputs)

\* mutation.rs:200-214: for arg in arg_places { for arg_mut in reachable_values(arg) }
\* The set reachable_values returns is walked in the order of its hasher:
\* the outcomes are the batches of every order.
RECURSIVE CallArgs(_, _, _, _, _, _, _)
CallArgs(b, loans, args, i, acache, rcache, muts) ==
  IF i > Len(args) THEN {[acache |-> acache, rcache |-> rcache, muts |-> muts]}
  ELSE UNION {UNION {CallArgs(b, loans, args, i + 1, r.acache, r.rcache,
                                muts \o PossiblyOf(args[i], order, 1, args)) :
                         order \in Perms(r.val)} :
                 r \in ReachableValues(b, loans, acache, rcache, args[i], FALSE)}

\* ModularMutationVisitor::visit_terminator on a call: the possible outcomes.
visit_call(b, loans, acache, rcache, dst, args) ==
  LET places == SelectSeq(arg_places(args), LAMBDA q : ~ignore_place(b, q))
      ret_is_unit == PlaceTy(b, dst).k = "unit"
      inputs == IF ret_is_unit THEN <<>> ELSE places
  IN CallArgs(b, loans, places, 1, acache, rcache,
              <<Mutation(dst, inputs, "Definitely")>>)

--------------------------------------------------------------------------
(* Bounds of the model.                                                    *)

\* Subset facts added to a body's own, at most.
MaxExtraEdges == 1
\* Places longer than this are not followed further.
MaxProjLen == 4
\* Queries issued on one engine, at most.
MaxQueries == 3

RECURSIVE SubsetsUpTo(_, _)
SubsetsUpTo(A, k) ==
  IF k = 0 THEN {{}}
  ELSE LET prev == SubsetsUpTo(A, k - 1)
       IN prev \cup UNION {{X \cup {x} : x \in A} : X \in prev}

--------------------------------------------------------------------------
(* State machine.                                                          *)

NoRet == [op |-> "none", place |-> NoPlace, shallow |-> FALSE, val |-> {}]

InitWith(bodies, extras) ==
  /\ body \in bodies
  /\ \E extra \in SubsetsUpTo(body.cand, extras) : facts = body.base \cup extra
  /\ mode \in Modes
  /\ pc = "init"
  /\ contains = [r \in Regions(body) |-> {}]
  /\ done_sccs = {}
  /\ cur_scc = {}
  /\ cursor = 0
  /\ changed = FALSE
  /\ aliases_cache = {}
  /\ conflicts_cache = {}
  /\ reachable_cache = {}
  /\ ret = NoRet
  /\ nqueries = 0
  /\ vloc = 1
  /\ batches = <<>>

loopvars == <<done_sccs, cur_scc, cursor, changed>>
queryvars == <<aliases_cache, conflicts_cache, reachable_cache, ret, nqueries>>
visitvars == <<vloc, batches>>
inputvars == <<body, facts, mode>>

\* Aliases::build: compute_loans, then empty caches.
Build ==
  /\ pc = "init"
  /\ ~SubsetPanics(body, facts, mode)
  /\ contains' \in compute_loans(body, facts, mode)
  /\ pc' = "built"
  /\ UNCHANGED <<inputvars, loopvars, queryvars, visitvars>>

\* Aliases::build when compute_loans panics: there is no engine.
BuildPanic ==
  /\ pc = "init"
  /\ SubsetPanics(body, facts, mode)
  /\ pc' = "panicked"
  /\ UNCHANGED <<inputvars, contains, loopvars, queryvars, visitvars>>

QueryAliases ==
  /\ pc = "built" /\ nqueries < MaxQueries
  /\ \E p \in body.places :
       LET r == Aliases(body, contains, aliases_cache, p) IN
       /\ aliases_cache' = r.cache
       /\ ret' = [op |-> "aliases", place |-> p, shallow |-> FALSE, val |-> r.val]
  /\ nqueries' = nqueries + 1
  /\ UNCHANGED <<inputvars, pc, contains, loopvars, conflicts_cache, reachable_cache,
                 visitvars>>

QueryConflicts ==
  /\ pc = "built" /\ nqueries < MaxQueries
  /\ \E p \in body.places :
       LET r == Conflicts(body, contains, aliases_cache, conflicts_cache, p) IN
       /\ aliases_cache' = r.acache
       /\ conflicts_cache' = r.ccache
       /\ ret' = [op |-> "conflicts", place |-> p, shallow |-> FALSE, val |-> r.val]
  /\ nqueries' = nqueries + 1
  /\ UNCHANGED <<inputvars, pc, contains, loopvars, reachable_cache, visitvars>>

QueryReachable ==
  /\ pc = "built" /\ nqueries < MaxQueries
  /\ \E p \in body.places, sh \in BOOLEAN :
       \E r \in ReachableValues(body, contains, aliases_cache, reachable_cache, p, sh) :
       /\ aliases_cache' = r.acache
       /\ reachable_cache' = r.rcache
       /\ ret' = [op |-> "reachable_values", place |-> p, shallow |-> sh, val |-> r.val]
  /\ nqueries' = nqueries + 1
  /\ UNCHANGED <<inputvars, pc, contains, loopvars, conflicts_cache, visitvars>>

Init == InitWith(Bodies, 0)
Next == Build \/ BuildPanic \/ QueryAliases \/ QueryConflicts \/ QueryReachable
Spec == Init /\ [][Next]_vars

--------------------------------------------------------------------------
(* The visitor walking a body, one instruction per step.                   *)

AtInstr(op) == pc = "built" /\ vloc <= Len(body.stmts) /\ body.stmts[vloc].op = op

VisitAssign ==
  /\ AtInstr("assign")
  /\ batches' = batches \o AssignCallbacks(body, vloc, body.stmts[vloc].dst,
                                           body.stmts[vloc].rv)
  /\ vloc' = vloc + 1
  /\ UNCHANGED <<inputvars, pc, contains, loopvars, queryvars>>

VisitCall ==
  /\ AtInstr("call")
  /\ \E r \in visit_call(body, contains, aliases_cache, reachable_cache,
                          body.stmts[vloc].dst, body.stmts[vloc].args) :
        /\ aliases_cache' = r.acache
        /\ reachable_cache' = r.rcache
        /\ batches' = Append(batches, [loc |-> vloc, muts |-> r.muts])
  /\ vloc' = vloc + 1
  /\ UNCHANGED <<inputvars, pc, contains, loopvars, conflicts_cache, ret, nqueries>>

\* Any other statement or terminator: the callback is not invoked.
VisitOther ==
  /\ AtInstr("nop")
  /\ vloc' = vloc + 1
  /\ UNCHANGED <<inputvars, pc, contains, loopvars, queryvars, batches>>

VisitInit == InitWith(Bodies, MaxExtraEdges)
VisitNext == Build \/ BuildPanic \/ VisitAssign \/ VisitCall \/ VisitOther
VisitSpec == VisitInit /\ [][VisitNext]_vars

--------------------------------------------------------------------------
(* compute_loans step by step: one edge of a pass per step, the SCCs in    *)
(* any topological order, the places of contains(a) in any order.          *)

LoopSubset == Subset(body, facts, mode)
LoopEdges == SccEdges(LoopSubset, num_regions(facts), cur_scc)

LStart ==
  /\ pc = "init"
  /\ ~SubsetPanics(body, facts, mode)
  /\ pc' = "loop"
  /\ contains' = InitialContains(body)
  /\ UNCHANGED <<inputvars, loopvars, queryvars, visitvars>>

\* for scc in scc_order
LPick ==
  /\ pc = "loop" /\ cur_scc = {}
  /\ \E scc \in ReadySccs(LoopSubset, done_sccs) : cur_scc' = scc
  /\ cursor' = 1
  /\ changed' = FALSE
  /\ UNCHANGED <<inputvars, pc, contains, done_sccs, queryvars, visitvars>>

\* for a in scc_to_regions[scc] { for b in subset.iter(a) { ... } }
LEdge ==
  /\ pc = "loop" /\ cur_scc # {}
  /\ cursor <= Len(LoopEdges)
  /\ LET e == LoopEdges[cursor] IN
     \E order \in Perms(contains[e[1]]) :
       LET r == PropagateEdge(body, LoopSubset, Definite(body), contains, changed,
                              e[1], e[2], order)
       IN /\ \A q \in r.contains[e[2]] : Len(q.projection) <= MaxProjLen
          /\ contains' = r.contains
          /\ changed' = r.changed
  /\ cursor' = cursor + 1
  /\ UNCHANGED <<inputvars, pc, done_sccs, cur_scc, queryvars, visitvars>>

\* The end of a pass: another one, or the next SCC.
LEndPass ==
  /\ pc = "loop" /\ cur_scc # {}
  /\ cursor > Len(LoopEdges)
  /\ IF PassAgain(changed)
     THEN /\ cursor' = 1
          /\ changed' = FALSE
          /\ UNCHANGED <<done_sccs, cur_scc>>
     ELSE /\ done_sccs' = done_sccs \cup {cur_scc}
          /\ cur_scc' = {}
          /\ UNCHANGED <<cursor, changed>>
  /\ UNCHANGED <<inputvars, pc, contains, queryvars, visitvars>>

\* scc_order is exhausted: compute_loans returns contains.
LFinish ==
  /\ pc = "loop" /\ cur_scc = {}
  /\ ReadySccs(LoopSubset, done_sccs) = {}
  /\ pc' = "built"
  /\ UNCHANGED <<inputvars, contains, loopvars, queryvars, visitvars>>

LoopInit == InitWith(LoopBodies, MaxExtraEdges)
LoopNext == LStart \/ BuildPanic \/ LPick \/ LEdge \/ LEndPass \/ LFinish
LoopSpec == LoopInit /\ [][LoopNext]_vars

\* An engine built step by step, then queried.
DetInit == InitWith(Bodies, 0)
DetNext ==
  \/ LStart \/ BuildPanic \/ LPick \/ LEdge \/ LEndPass \/ LFinish
  \/ QueryAliases \/ QueryConflicts \/ QueryReachable
DetSpec == DetInit /\ [][DetNext]_vars

--------------------------------------------------------------------------
(* Claims about the queries (Spec).                                        *)

\* C1: reflexivity of aliasing: the set aliases(p) returns contains p,
\* whatever queries were issued on the engine before, queries on places
\* with the same normalized form included.
C1_Reflexive == ret.op = "aliases" => ret.place \in ret.val

\* C8: field-level precision: on the body a = &mut (0,0); b = &mut a.0;
\* c = &mut *b; *c = 1, aliases(*c) includes the field a.0 of the tuple and
\* does not include the tuple as a whole.
C8_FieldPrecision ==
  (body = Reborrow /\ ret.op = "aliases" /\ ret.place = D(L(4)))
    => (F0(L(2), IntTy) \in ret.val /\ L(2) \notin ret.val)

C8_Witness ==
  /\ body = Reborrow /\ ret.op = "aliases" /\ ret.place = D(L(4))
  /\ F0(L(2), IntTy) \in contains[3]

--------------------------------------------------------------------------
(* Claims about compute_loans (LoopSpec; C6 under DetSpec).                *)

Built == pc = "built"
LoopDefinite == Definite(body)

\* The places p may have become along chains of subset edges from region a:
\* at each edge the place as it is, or extended by the definite projection
\* of the edge's target.  `seen` is a set of <<region, place>>.
RECURSIVE VariantClosure(_, _, _)
VariantClosure(S, def, seen) ==
  LET kept == {<<e[2], x[2]>> : <<x, e>> \in {y \in seen \X S : y[1][1] = y[2][1]}}
      ext == {<<e[2], ProjectDeeper(x[2], def[e[2]].proj)>> :
                <<x, e>> \in {y \in seen \X S :
                   /\ y[1][1] = y[2][1]
                   /\ def[y[2][2]].has
                   /\ Len(y[1][2].projection) + Len(def[y[2][2]].proj) <= MaxProjLen}}
      next == seen \cup kept \cup ext
  IN IF next = seen THEN seen ELSE VariantClosure(S, def, next)

\* C2: soundness of containment under subset: for regions a, b with a chain
\* of subset edges from a to b and p in contains(a), contains(b) holds p or
\* p extended by definite projections of regions along the chain.
C2_ContainmentSound ==
  Built =>
    \A a \in Regions(body) : \A p \in contains[a] :
      \A b \in UNION {Reach(LoopSubset, x) : x \in Succs(LoopSubset, a)} :
        \E v \in VariantClosure(LoopSubset, LoopDefinite, {<<a, p>>}) :
          v[1] = b /\ v[2] \in contains[b]

\* A chain of two edges along which a place was extended.
C2_Witness ==
  /\ Built
  /\ \E a \in Regions(body) : \E b \in Succs(LoopSubset, a) \ {a} :
       \E c \in Succs(LoopSubset, b) \ {a, b} : \E p \in contains[a] :
         /\ p \notin contains[c]
         /\ \E q \in contains[c] :
              /\ q.local = p.local
              /\ Len(q.projection) > Len(p.projection)
              /\ SubSeq(q.projection, 1, Len(p.projection)) = p.projection

\* C3 as stated: contains(A) is a subset of contains(B) for every subset edge.
C3_ClosedUnderSubset ==
  Built => \A e \in LoopSubset : contains[e[1]] \subseteq contains[e[2]]

\* C3, amended: for every subset edge A -> B and p in contains(A), contains(B)
\* holds p; except that it holds p extended by B's definite projection when B
\* has a definite record of p's type and B -> A is not an edge as well.
C3_ClosedUpToProjection ==
  Built =>
    \A e \in LoopSubset : \A p \in contains[e[1]] :
      LET d == LoopDefinite[e[2]] IN
      IF d.has /\ <<e[2], e[1]>> \notin LoopSubset /\ d.ty = PlaceTy(body, p)
      THEN ProjectDeeper(p, d.proj) \in contains[e[2]]
      ELSE p \in contains[e[2]]

\* An edge whose source holds a place that its target holds only extended.
C3_Witness ==
  /\ Built
  /\ \E e \in LoopSubset : \E p \in contains[e[1]] :
       /\ p \notin contains[e[2]]
       /\ LoopDefinite[e[2]].proj # <<>>
       /\ ProjectDeeper(p, LoopDefinite[e[2]].proj) \in contains[e[2]]

\* At every edge a -> b a pass is about to walk, if some place of
\* contains(a) is inserted into contains(b) extended, then the edge is on no
\* cycle: a is not reachable from b.
NoProjectionOnCycle ==
  (pc = "loop" /\ cur_scc # {} /\ cursor <= Len(LoopEdges)) =>
    LET a == LoopEdges[cursor][1]
        b == LoopEdges[cursor][2]
    IN (\E p \in contains[a] :
          PropagatedPlace(body, LoopSubset, LoopDefinite, a, b, p) # p)
         => a \notin Reach(LoopSubset, b)

IsPrefix(s, t) == Len(s) <= Len(t) /\ SubSeq(t, 1, Len(s)) = s

\* `rest` is a concatenation of the non-empty definite projections of
\* distinct regions among `avail`.
RECURSIVE Decomposes(_, _, _)
Decomposes(rest, def, avail) ==
  \/ rest = <<>>
  \/ \E b \in avail :
       /\ def[b].has /\ def[b].proj # <<>>
       /\ IsPrefix(def[b].proj, rest)
       /\ Decomposes(SubSeq(rest, Len(def[b].proj) + 1, Len(rest)), def, avail \ {b})

\* Places do not grow without bound: a projection being appended along
\* edges on no cycle only, every place of contains is a seed extended by
\* the definite projection of a region at most once per region.
NoRepeatedProjection ==
  \A r \in Regions(body) : \A q \in contains[r] :
    \E a \in Regions(body) : \E seed \in InitialContains(body)[a] :
      /\ seed.local = q.local
      /\ IsPrefix(seed.projection, q.projection)
      /\ Decomposes(SubSeq(q.projection, Len(seed.projection) + 1, Len(q.projection)),
                    LoopDefinite, Regions(body))

\* C4: the propagation terminates on every input: each per-SCC loop reaches
\* a pass without change, because a definite projection is never appended
\* along an edge that lies on a cycle of the subset graph, so that places
\* do not grow without bound.
C4_Terminates ==
  /\ NoProjectionOnCycle
  /\ pc # "init" => NoRepeatedProjection

\* C5: idempotence of the fixpoint: the propagation run again on the map
\* compute_loans returned inserts nothing.
C5_Idempotent ==
  Built => RunSccs(body, LoopSubset, num_regions(facts), LoopDefinite, {}, {contains})
             = {contains}

\* A finished run in which an SCC of several regions received places.
C5_Witness ==
  /\ Built
  /\ \E scc \in done_sccs :
       /\ Cardinality(scc) > 1
       /\ \E r \in scc : contains[r] # InitialContains(body)[r]

\* loans.get(&region) for the pointer of the last dereference of `place`
\* (aliases.rs:381-386): the loans the closure of aliases walks.
RegionLoans(b, loans, place) ==
  IF IsDirect(b, place) \/ PlaceTy(b, LastRefPtr(place)).k # "ref" THEN {}
  ELSE LET region == PlaceTy(b, LastRefPtr(place)).r
       IN IF region \in DOMAIN loans THEN loans[region] ELSE {}

\* aliases.extend(region_aliases) (aliases.rs:387-398), the loans taken one
\* after the other in `order`.
RECURSIVE ExtendAliases(_, _, _, _, _)
ExtendAliases(b, place, order, i, aliases) ==
  IF i > Len(order) THEN aliases
  ELSE LET loan == order[i]
           orig_ty == TyNamed(PlaceTy(b, LastRefPtr(place)).t)
           alias == IF orig_ty = PlaceTy(b, loan)
                    THEN ProjectDeeper(loan, LastRefAfter(place))
                    ELSE loan
       IN ExtendAliases(b, place, order, i + 1, aliases \cup {alias})

\* C6: determinism: whatever order the SCCs are taken in (among the
\* topological ones) and whatever order the places of a set are iterated
\* in, the map the build ends with is the one map compute_loans can return,
\* and no query changes it; and on the built engine, whatever queries came before, every query has one
\* outcome, answer and caches, whatever order the interior pointers and the
\* loans are walked in.  Two builds from the same facts, asked the same
\* queries, therefore hold the same map and give the same answers.
C6_Deterministic ==
  /\ [][LFinish => compute_loans(body, facts, mode) = {contains'}]_vars
  /\ [][Built => (Built' /\ contains' = contains)]_vars
  /\ [](Built =>
          \A p \in body.places :
            /\ \A sh \in BOOLEAN :
                 Cardinality(ReachableValues(body, contains, aliases_cache,
                                             reachable_cache, p, sh)) = 1
            /\ \A order \in Perms(RegionLoans(body, contains, p)) :
                 ExtendAliases(body, p, order, 1, {p})
                   = AliasesCompute(body, contains, p))

\* A finished run in which a set of several places was iterated, then a
\* reachable_values query on a place of several interior pointers, each of
\* which has several loans.
C6_Witness ==
  /\ Built
  /\ \E e \in LoopSubset : Cardinality(contains[e[1]]) > 1 /\ e[1] # e[2]
  /\ ret.op = "reachable_values"
  /\ Cardinality(InteriorPointers(body, ret.place, ret.shallow)) > 1
  /\ \E e \in InteriorPointers(body, ret.place, ret.shallow) :
       Cardinality(contains[e[1]]) > 1

\* C7: conservative mode monotonicity: for every place, the aliases over the
\* map built in Conservative mode include the aliases over the map built in
\* Precise mode from the same body and facts (a body on which the Precise
\* build returns).
C7_ConservativeMonotone ==
  (Built /\ mode = "Conservative" /\ body \in Bodies) =>
    \A precise \in compute_loans(body, facts, "Precise") :
      \A p \in body.places :
        AliasesCompute(body, precise, p) \subseteq AliasesCompute(body, contains, p)

\* A Conservative build whose aliases of some place are strictly more.
C7_Witness ==
  /\ Built /\ mode = "Conservative" /\ body \in Bodies
  /\ \E precise \in compute_loans(body, facts, "Precise") :
       \E p \in body.places :
         AliasesCompute(body, precise, p) # AliasesCompute(body, contains, p)

--------------------------------------------------------------------------
(* Claims about the visitor (VisitSpec).                                   *)

\* C9: every assignment and every call delivers a batch with at least one
\* mutation record.
C9_NonEmptyBatch == \A i \in 1..Len(batches) : Len(batches[i].muts) >= 1

IsFieldAggregate(s) ==
  /\ s.op = "assign" /\ s.rv.kind = "Aggregate" /\ s.rv.agg \in {"Adt", "Tuple"}
  /\ s.rv.ty.k \in {"pair", "rpair", "refs", "point"}
  /\ Len(s.rv.ops) >= 1

\* C10: aggregate destructuring: dst = Ctor(op_1, ..., op_n) of a struct or
\* tuple with n >= 1 fields delivers exactly n records, all Definitely, the
\* i-th mutating dst.field_i with inputs the place of op_i, none for a constant.
C10_AggregateDestructured ==
  \A k \in 1..Len(batches) :
    LET s == body.stmts[batches[k].loc]
        m == batches[k].muts
        n == Len(s.rv.ops)
    IN IsFieldAggregate(s) =>
         /\ Len(m) = n
         /\ \A i \in 1..n :
              /\ m[i].status = "Definitely"
              /\ m[i].mutated.local = s.dst.local
              /\ Len(m[i].mutated.projection) = Len(s.dst.projection) + 1
              /\ SubSeq(m[i].mutated.projection, 1, Len(s.dst.projection))
                   = s.dst.projection
              /\ m[i].mutated.projection[Len(s.dst.projection) + 1].kind = "Field"
              /\ m[i].mutated.projection[Len(s.dst.projection) + 1].idx = i - 1
              /\ m[i].inputs = IF s.rv.ops[i].const THEN <<>> ELSE <<s.rv.ops[i].place>>

\* A batch of a two-field aggregate with one constant and one place operand.
C10_Witness ==
  \E k \in 1..Len(batches) :
    LET s == body.stmts[batches[k].loc] IN
    /\ IsFieldAggregate(s)
    /\ Len(s.rv.ops) = 2
    /\ s.rv.ops[1].const /\ ~s.rv.ops[2].const
    /\ Len(batches[k].muts) = 2

\* The argument places of a call as the visitor takes them: the places among
\* its operands, those of the async desugaring left out.
CallArgPlaces(s) == SelectSeq(arg_places(s.args), LAMBDA q : ~ignore_place(body, q))

Range(f) == {f[i] : i \in DOMAIN f}

PossiblyRecords(k) == {m \in Range(batches[k].muts) : m.status = "Possibly"}

\* reachable_values(arg, shallow = false), computed without the caches.
ReachableOf(arg) ==
  UNION {r.val : r \in ReachableValues(body, contains, {}, {}, arg, FALSE)}

\* C11: call modular summary: the batch of a call with argument places args
\* holds a Possibly record for every place of reachable_values(arg) other
\* than arg, for every arg of args, each with inputs args; and no Possibly
\* record of the batch mutates an argument place of the call.
C11_CallSummary ==
  \A k \in 1..Len(batches) :
    LET s == body.stmts[batches[k].loc]
        args == CallArgPlaces(s)
    IN s.op = "call" =>
         /\ \A i \in 1..Len(args) : \A q \in ReachableOf(args[i]) \ {args[i]} :
              \E m \in PossiblyRecords(k) : m.mutated = q /\ m.inputs = args
         /\ \A m \in PossiblyRecords(k) :
              /\ m.mutated \notin Range(args)
              /\ m.inputs = args
              /\ \E i \in 1..Len(args) : m.mutated \in ReachableOf(args[i])

\* A call of two argument places through which other places are reachable.
C11_Witness ==
  \E k \in 1..Len(batches) :
    LET s == body.stmts[batches[k].loc]
        args == CallArgPlaces(s)
    IN /\ s.op = "call" /\ Len(args) >= 2
       /\ \A i \in 1..Len(args) :
            args[i] \in ReachableOf(args[i]) /\ ReachableOf(args[i]) # {args[i]}
       /\ Cardinality(PossiblyRecords(k)) >= 2

\* The instructions already visited for which the callback is due.
VisitedMutating ==
  {i \in 1..(vloc - 1) : body.stmts[i].op \in {"assign", "call"}}

\* C12: over one traversal the callback is invoked exactly once for each
\* assignment and each call visited, with that instruction's location, in
\* forward order, and for no other instruction: the batches delivered so
\* far are those of the assignments and calls visited, one each, ascending.
C12_OncePerInstruction ==
  /\ Len(batches) = Cardinality(VisitedMutating)
  /\ \A k \in 1..Len(batches) : batches[k].loc \in VisitedMutating
  /\ \A j, k \in 1..Len(batches) : j < k => batches[j].loc < batches[k].loc

\* A finished traversal of a body with assignments, calls and another
\* instruction between them.
C12_Witness ==
  /\ vloc > Len(body.stmts)
  /\ \E i, j, k \in 1..Len(body.stmts) :
       /\ i < j /\ j < k
       /\ body.stmts[i].op = "assign"
       /\ body.stmts[j].op = "nop"
       /\ body.stmts[k].op = "call"
  /\ Len(batches) = Len(body.stmts) - 1

\* dst = copy src or dst = move src, with src of a struct type.
IsStructUse(s) ==
  /\ s.op = "assign" /\ s.rv.kind = "Use"
  /\ ~s.rv.ops[1].const
  /\ PlaceTy(body, s.rv.ops[1].place).k \in {"point", "empty", "box"}

\* `q` is `p` one field further: the field of index i and type ty.
IsFieldOf(q, p, i, ty) ==
  /\ q.local = p.local
  /\ Len(q.projection) = Len(p.projection) + 1
  /\ SubSeq(q.projection, 1, Len(p.projection)) = p.projection
  /\ q.projection[Len(q.projection)] = [kind |-> "Field", idx |-> i, ty |-> ty]

\* C14: whole-value copy or move of a struct: dst = src with src of a struct
\* type of fields field_1..field_n delivers exactly one Definitely record
\* per field, the i-th mutating dst.field_i with inputs [src.field_i], and
\* no record for dst as a whole.
C14_StructDestructured ==
  \A k \in 1..Len(batches) :
    LET s == body.stmts[batches[k].loc]
        m == batches[k].muts
        src == s.rv.ops[1].place
        tys == FieldTys(PlaceTy(body, src))
    IN IsStructUse(s) =>
         /\ Len(m) = Len(tys)
         /\ \A i \in 1..Len(m) :
              /\ m[i].status = "Definitely"
              /\ IsFieldOf(m[i].mutated, s.dst, i - 1, tys[i])
              /\ Len(m[i].inputs) = 1
              /\ IsFieldOf(m[i].inputs[1], src, i - 1, tys[i])
              /\ m[i].mutated # s.dst

\* The batch of a copy of a struct of two fields.
C14_Witness ==
  \E k \in 1..Len(batches) :
    LET s == body.stmts[batches[k].loc] IN
    /\ IsStructUse(s)
    /\ Len(FieldTys(PlaceTy(body, s.rv.ops[1].place))) = 2
    /\ Len(batches[k].muts) = 2

--------------------------------------------------------------------------
(* Further claims about the queries (Spec).                                *)

\* The places the loans of the last dereferenced pointer of `place` stand
\* for: each loan of the pointer's region, extended by the projection after
\* the pointer when the loan has the pointee's type.
LoanAliases(place) ==
  LET ptr_ty == PlaceTy(body, LastRefPtr(place)) IN
  {q \in {ProjectDeeper(p, LastRefAfter(place)) : p \in contains[ptr_ty.r]}
         \cup contains[ptr_ty.r] :
     \E p \in contains[ptr_ty.r] :
       \/ PlaceTy(body, p) = TyNamed(ptr_ty.t) /\ q = ProjectDeeper(p, LastRefAfter(place))
       \/ PlaceTy(body, p) # TyNamed(ptr_ty.t) /\ q = p}

\* C13: aliases(place) equals the reference result: {place} when place is
\* direct or its last dereferenced pointer is no reference with a region
\* variable; otherwise {place} with, for every p of contains(r), p extended
\* by `after` when p has the pointee type and p itself when it has not.
C13_ReferenceResult ==
  ret.op = "aliases" =>
    ret.val = IF IsDirect(body, ret.place)
                 \/ PlaceTy(body, LastRefPtr(ret.place)).k # "ref"
              THEN {ret.place}
              ELSE {ret.place} \cup LoanAliases(ret.place)

\* What the engine answers to aliases(*ptr) for the interior pointers of the
\* place of the last query.
InteriorAliases ==
  UNION {Aliases(body, contains, aliases_cache, MkPlaceDeref(e[2])).val :
           e \in InteriorPointers(body, ret.place, ret.shallow)}

\* C15: every place of the set reachable_values(place, shallow) returns is
\* direct; the queried place is in it exactly when it is direct; every other
\* member is an alias of the dereference of an interior pointer of place.
C15_ReachableDirect ==
  ret.op = "reachable_values" =>
    /\ \A q \in ret.val : IsDirect(body, q)
    /\ ret.place \in ret.val <=> IsDirect(body, ret.place)
    /\ \A q \in ret.val \ {ret.place} : q \in InteriorAliases

\* A query on a direct place through whose pointers other places are reached.
C15_Witness ==
  /\ ret.op = "reachable_values"
  /\ ret.place \in ret.val
  /\ \E q \in ret.val : q # ret.place /\ q.local # ret.place.local

\* The answers an engine with empty caches may give to the last query.
Uncached ==
  CASE ret.op = "aliases" -> {AliasesCompute(body, contains, ret.place)}
    [] ret.op = "conflicts" -> {Conflicts(body, contains, {}, {}, ret.place).val}
    [] ret.op = "reachable_values" ->
         {r.val : r \in ReachableValues(body, contains, {}, {}, ret.place, ret.shallow)}
    [] OTHER -> {}

OneEntryPerKey(cache) == \A e1, e2 \in cache : e1.key = e2.key => e1 = e2

\* C16: memoization is transparent: what aliases(p), conflicts(p) and
\* reachable_values(p, s) return is what an uncached computation on the
\* queried place returns, whatever queries came before, queries on another
\* place of the same normalized form included; a cache holds one entry per key.
C16_MemoTransparent ==
  /\ ret.op # "none" => ret.val \in Uncached
  /\ OneEntryPerKey(aliases_cache)
  /\ OneEntryPerKey(conflicts_cache)
  /\ OneEntryPerKey(reachable_cache)

====
